---- MODULE Spec2Model ----
(***************************************************************************)
(* Stonehenge: the board position (StonehengeState), the application of a  *)
(* move with leyline capture, the terminal test of the game, and the two   *)
(* minimax searches of strategy.py.  The searches do not change the game   *)
(* they are given, so they are operators evaluated on the game in play.    *)
(*                                                                         *)
(* Leyline objects are mutable Python objects, so they live in a heap (a   *)
(* sequence indexed by object identity) and a state refers to them by      *)
(* identity.  copy.deepcopy allocates fresh objects.  Python's dynamic     *)
(* "value is an int or a str" is a tagged pair <<"int", i>> / <<"str", s>>.*)
(***************************************************************************)
EXTENDS Integers, Sequences, FiniteSets, TLC

VARIABLES
    heap,    \* the Leyline objects, by identity
    hist,    \* the states still held, oldest first; the last is the current one
    snaps,   \* what each held state read as when it was returned
    moves,   \* the move that produced each held state from the one held
             \* before it ("" for the oldest)
    rejected, \* the move on which the last call of make_move raised
             \* ValueError ("" when the last call returned a state)
    loop     \* the GameTree objects and the stack of a running call of
             \* iterative_helper (both empty when none is running)

vars == <<heap, hist, snaps, moves, rejected, loop>>

(* ---------------------------- bounds ----------------------------------- *)

\* largest board length entered at the prompt of Stonehenge.__init__
MaxBLength == 2

\* how many of the most recent states of a play the caller still holds
MaxHist == 3

\* the loop of iterative_helper is followed for at most 2^IterFuel iterations
IterFuel == 16

\* the loop of iterative_helper is followed step by step on the games that
\* have at most this many possible moves
MaxIterMoves == 5

(* ---------------------------- helpers ---------------------------------- *)

ALPHA ==
    <<"A", "B", "C", "D", "E", "F", "G", "H", "I", "J", "K", "L", "M",
      "N", "O", "P", "Q", "R", "S", "T", "U", "V", "W", "X", "Y", "Z">>

\* list.count(x)
count(seq, x) == Cardinality({i \in 1..Len(seq) : seq[i] = x})

\* x in list
contains(seq, x) == \E i \in 1..Len(seq) : seq[i] = x

\* list.index(x): the first position holding x
index(seq, x) ==
    CHOOSE i \in 1..Len(seq) : seq[i] = x /\ \A j \in 1..(i - 1) : seq[j] # x

\* the bug of leaving the list as it is
remove_nothing(seq, x) == seq

\* the bug of list.pop() in place of list.remove(x)
remove_last(seq, x) == SubSeq(seq, 1, Len(seq) - 1)

\* list.remove(x): drops the first occurrence of x
remove(seq, x) ==
    LET i == index(seq, x)
    IN  SubSeq(seq, 1, i - 1) \o SubSeq(seq, i + 1, Len(seq))

\* list.reverse()
reverse(seq) == [k \in 1..Len(seq) |-> seq[Len(seq) + 1 - k]]

\* max(list) of integers
max(seq) == CHOOSE v \in {seq[i] : i \in 1..Len(seq)} :
                \A i \in 1..Len(seq) : seq[i] <= v

\* the bug of asking for more than half of the cells
ceil_half_more(n) == n \div 2 + 1

\* the bug of rounding half the length down
ceil_half_floor(n) == n \div 2

\* math.ceil(0.5 * n) for a list length n
ceil_half(n) == (n + 1) \div 2

\* the bug of rounding half the number of leylines down
win_threshold_floor(b_length) == (3 * (b_length + 1)) \div 2

\* math.ceil(3 * (b_length + 1) / 2)
win_threshold(b_length) == (3 * (b_length + 1) + 1) \div 2

(* ---------------------------- Leyline ---------------------------------- *)

Leyline(value) == [value |-> <<"int", value>>, letters |-> <<>>]

is_int(value) == value[1] = "int"

(* ---------------------------- geometry --------------------------------- *)

RECURSIVE hoz_loop(_, _, _)
hoz_loop(i, n, a) ==
    IF i > n + 1 THEN <<>>
    ELSE LET cnt == IF i <= n THEN i + 1 ELSE n
         IN  <<[Leyline(i) EXCEPT !.letters = SubSeq(a, 1, cnt)]>>
             \o hoz_loop(i + 1, n, SubSeq(a, cnt + 1, Len(a)))

generate_hoz(num) == hoz_loop(1, num, ALPHA)

generate_right_diag_lines(num, hl) ==
    [i \in 1..(num + 1) |->
        LET first == IF i = 1
                     THEN [k \in 1..num |-> hl[k].letters[1]]
                     ELSE [k \in 1..(num - (i - 2)) |-> hl[k + i - 2].letters[i]]
        IN  [Leyline(i) EXCEPT !.letters =
                IF i = 1 THEN first
                ELSE Append(first, hl[num + 1].letters[i - 1])]]

generate_left_diag_lines(num, hl) ==
    [i \in 1..(num + 1) |->
        LET start == IF i <= 2 THEN 0 ELSE i - 2
            picked == [k \in 1..(num - start) |->
                         LET row == hl[k + start].letters
                         IN  row[Len(row) - i + 1]]
            rev == reverse(picked)
        IN  [Leyline(i) EXCEPT !.letters =
                IF i = 1 THEN rev
                ELSE <<hl[num + 1].letters[num - i + 2]>> \o rev]]

(* ---------------------------- StonehengeState -------------------------- *)

\* the bug of counting one cell too many
num_cells_plus_one(b_length) == (b_length * b_length + 5 * b_length) \div 2 + 1

num_cells(b_length) == (b_length * b_length + 5 * b_length) \div 2

StonehengeState(is_p1, b_length, p1_score, p2_score, h_lines, r_lines, l_lines) ==
    [p1_turn |-> is_p1, b_length |-> b_length,
     p1_score |-> p1_score, p2_score |-> p2_score,
     h_lines |-> h_lines, r_lines |-> r_lines, l_lines |-> l_lines,
     possible_moves |-> SubSeq(ALPHA, 1, num_cells(b_length))]

\* the bug of returning an empty list
get_possible_moves_none(self) == <<>>

get_possible_moves(self) == self.possible_moves

\* the bug of copying the list but not the Leyline objects in it
deepcopy_shallow(hp, refs) == [heap |-> hp, refs |-> refs]

\* copy.deepcopy of a list of Leyline objects: fresh objects, same contents
deepcopy(hp, refs) ==
    [heap |-> hp \o [k \in 1..Len(refs) |-> hp[refs[k]]],
     refs |-> [k \in 1..Len(refs) |-> Len(hp) + k]]

\* the bug of leaving out the test that the leyline is still unclaimed
change_leyline_nocheck(m, ley) ==
    LET threshold == ceil_half(Len(m.heap[ley].letters))
        m1 == IF count(m.heap[ley].letters, "1") >= threshold
              THEN [m EXCEPT !.heap[ley].value = <<"str", "1">>,
                             !.ss.p1_score = @ + 1]
              ELSE m
    IN  IF count(m1.heap[ley].letters, "2") >= threshold
        THEN [m1 EXCEPT !.heap[ley].value = <<"str", "2">>,
                        !.ss.p2_score = @ + 1]
        ELSE m1

\* the bug of crediting player 1 with a capture of player 2
change_leyline_credit_p1(m, ley) ==
    LET threshold == ceil_half(Len(m.heap[ley].letters))
        m1 == IF /\ count(m.heap[ley].letters, "1") >= threshold
                 /\ m.heap[ley].value[1] = "int"
              THEN [m EXCEPT !.heap[ley].value = <<"str", "1">>,
                             !.ss.p1_score = @ + 1]
              ELSE m
    IN  IF /\ count(m1.heap[ley].letters, "2") >= threshold
           /\ m1.heap[ley].value[1] = "int"
        THEN [m1 EXCEPT !.heap[ley].value = <<"str", "2">>,
                        !.ss.p1_score = @ + 1]
        ELSE m1

\* m is the pair [heap, ss] during the construction of the new state ss
change_leyline(m, ley) ==
    LET threshold == ceil_half(Len(m.heap[ley].letters))
        m1 == IF /\ count(m.heap[ley].letters, "1") >= threshold
                 /\ is_int(m.heap[ley].value)
              THEN [m EXCEPT !.heap[ley].value = <<"str", "1">>,
                             !.ss.p1_score = @ + 1]
              ELSE m
    IN  IF /\ count(m1.heap[ley].letters, "2") >= threshold
           /\ is_int(m1.heap[ley].value)
        THEN [m1 EXCEPT !.heap[ley].value = <<"str", "2">>,
                        !.ss.p2_score = @ + 1]
        ELSE m1

\* the bug of marking the cell for player 1 whoever moves
change_letter_as_p1(m, move, line_list) ==
    LET player == "1"
        hits == {k \in 1..Len(line_list) :
                    contains(m.heap[line_list[k]].letters, move)}
    IN  IF hits = {} THEN m
        ELSE LET k == CHOOSE x \in hits : \A y \in hits : x <= y
                 leyline == line_list[k]
                 i == index(m.heap[leyline].letters, move)
             IN  change_leyline(
                     [m EXCEPT !.heap[leyline].letters[i] = player], leyline)

change_letter(m, move, line_list) ==
    LET player == IF m.ss.p1_turn THEN "1" ELSE "2"
        hits == {k \in 1..Len(line_list) :
                    contains(m.heap[line_list[k]].letters, move)}
    IN  IF hits = {} THEN m
        ELSE LET k == CHOOSE x \in hits : \A y \in hits : x <= y
                 leyline == line_list[k]
                 i == index(m.heap[leyline].letters, move)
             IN  change_leyline(
                     [m EXCEPT !.heap[leyline].letters[i] = player], leyline)

\* the bug of removing the move only if it is listed, so that nothing raises
make_move_unchecked(hp, self, move) ==
    LET h == deepcopy(hp, self.h_lines)
        l == deepcopy(h.heap, self.l_lines)
        r == deepcopy(l.heap, self.r_lines)
        ss == StonehengeState(self.p1_turn, self.b_length, self.p1_score,
                              self.p2_score, h.refs, r.refs, l.refs)
        m0 == [heap |-> r.heap, ss |-> ss]
        m1 == change_letter(m0, move, ss.h_lines)
        m2 == change_letter(m1, move, ss.r_lines)
        m3 == change_letter(m2, move, ss.l_lines)
        mvs == get_possible_moves(self)
        m4 == [m3 EXCEPT !.ss.possible_moves =
                            IF contains(mvs, move) THEN remove(mvs, move) ELSE mvs,
                         !.ss.p1_turn = ~@]
        threshold == win_threshold(m4.ss.b_length)
        m5 == IF m4.ss.p1_score >= threshold \/ m4.ss.p2_score >= threshold
              THEN [m4 EXCEPT !.ss.possible_moves = <<>>]
              ELSE m4
    IN  [heap |-> m5.heap, ss |-> m5.ss, raised |-> FALSE]

\* self.make_move(move) on the heap hp: the heap afterwards, the new state
\* ss, and whether list.remove raised ValueError (then nothing is returned)
make_move(hp, self, move) ==
    LET h == deepcopy(hp, self.h_lines)
        l == deepcopy(h.heap, self.l_lines)
        r == deepcopy(l.heap, self.r_lines)
        ss == StonehengeState(self.p1_turn, self.b_length, self.p1_score,
                              self.p2_score, h.refs, r.refs, l.refs)
        m0 == [heap |-> r.heap, ss |-> ss]
        m1 == change_letter(m0, move, ss.h_lines)
        m2 == change_letter(m1, move, ss.r_lines)
        m3 == change_letter(m2, move, ss.l_lines)
        mvs == get_possible_moves(self)
        raised == ~contains(mvs, move)
        m4 == IF raised THEN m3
              ELSE [m3 EXCEPT !.ss.possible_moves = remove(mvs, move),
                              !.ss.p1_turn = ~@]
        threshold == win_threshold(m4.ss.b_length)
        m5 == IF ~raised /\ (m4.ss.p1_score >= threshold
                             \/ m4.ss.p2_score >= threshold)
              THEN [m4 EXCEPT !.ss.possible_moves = <<>>]
              ELSE m4
    IN  [heap |-> m5.heap, ss |-> m5.ss, raised |-> raised]

\* copy.deepcopy(self): the same fields over fresh Leyline objects
deepcopy_state(hp, self) ==
    LET h == deepcopy(hp, self.h_lines)
        r == deepcopy(h.heap, self.r_lines)
        l == deepcopy(r.heap, self.l_lines)
    IN  [heap |-> l.heap,
         ss |-> [self EXCEPT !.h_lines = h.refs, !.r_lines = r.refs,
                             !.l_lines = l.refs]]

\* the bug of returning the copy without applying the move
give_copy_unmoved(hp, self, move) ==
    LET s == deepcopy_state(hp, self)
    IN  [heap |-> s.heap, ss |-> s.ss, raised |-> FALSE]

\* s = copy.deepcopy(self); return s.make_move(move)
give_copy(hp, self, move) ==
    LET s == deepcopy_state(hp, self)
    IN  make_move(s.heap, s.ss, move)

\* the bug of testing the score of player 1 only
check_good_move_p1(hp, self, move) ==
    LET new_state == give_copy(hp, self, move).ss
        threshold == win_threshold(new_state.b_length)
    IN  new_state.p1_score >= threshold

check_good_move(hp, self, move) ==
    LET new_state == give_copy(hp, self, move).ss
        threshold == win_threshold(new_state.b_length)
    IN  new_state.p1_score >= threshold \/ new_state.p2_score >= threshold

\* the states one possible move away, each with the heap it lives in
list_states(hp, self) ==
    [k \in 1..Len(self.possible_moves) |->
        give_copy(hp, self, self.possible_moves[k])]

\* any(list) and all(list) of Python
any(list) == \E i \in 1..Len(list) : list[i]

all(list) == \A i \in 1..Len(list) : list[i]

\* the truth value of a list: it is true unless the list is empty
truthy(list) == Len(list) # 0

\* the second test reads p1_score twice; all(...) is handed one list per
\* state of list_states and tests each list for its truth value
rough_outcome(hp, self) ==
    LET threshold == win_threshold(self.b_length)
    IN  IF self.p1_score >= threshold \/ self.p1_score >= threshold
        THEN -1
        ELSE IF any([k \in 1..Len(self.possible_moves) |->
                        check_good_move(hp, self, self.possible_moves[k])])
        THEN 1
        ELSE IF LET states == list_states(hp, self)
                IN  all([k \in 1..Len(states) |->
                        truthy([j \in 1..Len(states[k].ss.possible_moves) |->
                                   check_good_move(states[k].heap, states[k].ss,
                                       states[k].ss.possible_moves[j])])])
        THEN -1
        ELSE 0

(* ---------------------------- observation ------------------------------ *)

\* what a caller can read from a state: every field, leylines by content
View(hp, st) ==
    [p1_turn |-> st.p1_turn, b_length |-> st.b_length,
     p1_score |-> st.p1_score, p2_score |-> st.p2_score,
     h_lines |-> [k \in 1..Len(st.h_lines) |-> hp[st.h_lines[k]]],
     r_lines |-> [k \in 1..Len(st.r_lines) |-> hp[st.r_lines[k]]],
     l_lines |-> [k \in 1..Len(st.l_lines) |-> hp[st.l_lines[k]]],
     possible_moves |-> st.possible_moves]

\* the identities a state refers to
refs_of(st) ==
    {st.h_lines[k] : k \in 1..Len(st.h_lines)}
        \cup {st.r_lines[k] : k \in 1..Len(st.r_lines)}
        \cup {st.l_lines[k] : k \in 1..Len(st.l_lines)}

\* objects no held state refers to are reclaimed; identities are renumbered
\* in increasing order, which no Python code can observe
live(states) == UNION {refs_of(states[k]) : k \in 1..Len(states)}

\* the live identities in increasing order
sorted(hp, ids) == SelectSeq([i \in 1..Len(hp) |-> i], LAMBDA i : i \in ids)

\* the new identity of a live object: its rank among the live ones, which
\* is a plain shift when the live objects are the newest ones
rank(hp, ids, id) ==
    IF ids = (Len(hp) - Cardinality(ids) + 1)..Len(hp)
    THEN id - (Len(hp) - Cardinality(ids))
    ELSE Cardinality({j \in ids : j <= id})

rename(hp, ids, st) ==
    [st EXCEPT !.h_lines = [k \in 1..Len(@) |-> rank(hp, ids, @[k])],
               !.r_lines = [k \in 1..Len(@) |-> rank(hp, ids, @[k])],
               !.l_lines = [k \in 1..Len(@) |-> rank(hp, ids, @[k])]]

collect(hp, states) ==
    LET ids == live(states)
        n == Cardinality(ids)
    IN  [heap |-> IF ids = (Len(hp) - n + 1)..Len(hp)
                  THEN SubSeq(hp, Len(hp) - n + 1, Len(hp))
                  ELSE LET order == sorted(hp, ids)
                       IN  [i \in 1..n |-> hp[order[i]]],
         states |-> [k \in 1..Len(states) |-> rename(hp, ids, states[k])]]

(* ---------------------------- Stonehenge (game) ------------------------ *)

\* Stonehenge.__init__: the three families are generated once and handed to
\* the first state, which refers to these very objects
new_game(is_p1, b_length) ==
    LET hoz_lines == generate_hoz(b_length)
        right_lines == generate_right_diag_lines(b_length, hoz_lines)
        left_lines == generate_left_diag_lines(b_length, hoz_lines)
        n == b_length + 1
    IN  [heap |-> hoz_lines \o right_lines \o left_lines,
         current_state |->
            StonehengeState(is_p1, b_length, 0, 0,
                            [k \in 1..n |-> k],
                            [k \in 1..n |-> n + k],
                            [k \in 1..n |-> 2 * n + k])]

is_over(state) ==
    LET threshold == win_threshold(state.b_length)
    IN  state.p1_score >= threshold \/ state.p2_score >= threshold

\* the bug of asking the winner for more than the threshold
is_winner_strict(game, player) ==
    LET threshold == win_threshold(game.current_state.b_length)
    IN  \/ player = "p1" /\ game.current_state.p1_score > threshold
        \/ player = "p2" /\ game.current_state.p2_score > threshold

\* the bug of reading the score of the other player
is_winner_other(game, player) ==
    LET threshold == win_threshold(game.current_state.b_length)
    IN  \/ player = "p1" /\ game.current_state.p2_score >= threshold
        \/ player = "p2" /\ game.current_state.p1_score >= threshold

is_winner(game, player) ==
    LET threshold == win_threshold(game.current_state.b_length)
    IN  \/ player = "p1" /\ game.current_state.p1_score >= threshold
        \/ player = "p2" /\ game.current_state.p2_score >= threshold

(* ---------------------------- strategy.py ------------------------------ *)

\* a game as the strategies see it: its own objects and its current state
game_of(hp, st) ==
    LET c == collect(hp, <<st>>)
    IN  [heap |-> c.heap, current_state |-> c.states[1]]

\* g = copy.deepcopy(game): every object reachable from game, afresh
deepcopy_game(game) == game_of(game.heap, game.current_state)

\* g = copy.deepcopy(game); s = g.current_state.make_move(move);
\* g.current_state = s
game_after(game, move) ==
    LET g == deepcopy_game(game)
        s == make_move(g.heap, g.current_state, move)
    IN  game_of(s.heap, s.ss)

\* the bug of reading the chosen position off ALPHA, not off the moves left
best_of_alpha(mvs, moves_scores) ==
    IF moves_scores = <<>> THEN [raised |-> TRUE, move |-> ""]
    ELSE [raised |-> FALSE,
          move |-> ALPHA[index(moves_scores, max(moves_scores))]]

\* the bug of keeping the last maximal entry
best_of_last(mvs, moves_scores) ==
    IF moves_scores = <<>> THEN [raised |-> TRUE, move |-> ""]
    ELSE [raised |-> FALSE,
          move |-> mvs[CHOOSE i \in 1..Len(moves_scores) :
                          /\ moves_scores[i] = max(moves_scores)
                          /\ \A j \in (i + 1)..Len(moves_scores) :
                                moves_scores[j] # max(moves_scores)]]

\* moves_scores.index(max(moves_scores)) picks the first maximal entry
best_of(mvs, moves_scores) ==
    IF moves_scores = <<>> THEN [raised |-> TRUE, move |-> ""]
    ELSE [raised |-> FALSE,
          move |-> mvs[index(moves_scores, max(moves_scores))]]

RECURSIVE recursive_helper(_)
recursive_helper(game) ==
    IF is_over(game.current_state)
    THEN IF is_winner(game, "p2") \/ is_winner(game, "p1") THEN -1 ELSE 0
    ELSE LET mvs == get_possible_moves(game.current_state)
             games_list == [k \in 1..Len(mvs) |-> game_after(game, mvs[k])]
         IN  max([k \in 1..Len(mvs) |-> -1 * recursive_helper(games_list[k])])

recursive_minimax(game) ==
    LET mvs == get_possible_moves(game.current_state)
        moves_scores == [k \in 1..Len(mvs) |->
                            -1 * recursive_helper(game_after(game, mvs[k]))]
    IN  best_of(mvs, moves_scores)

\* the bug of not negating the children's scores
children_score_plain(scores) == max(scores)

\* max([-1 * g.score for g in curr_game.children]) over the children's scores
children_score(scores) == max([k \in 1..Len(scores) |-> -1 * scores[k]])

\* GameTree.score is None until assigned: <<>> is None, <<v>> is the int v
None == <<>>

GameTree(game) == [children |-> <<>>, score |-> None, game |-> game]

\* the loop state of iterative_helper: the GameTree objects by identity
\* (tree[1] is gt), the stack s of identities, and whether -1 * None raised
iterative_start(game) ==
    [tree |-> <<GameTree(game)>>, s |-> <<1>>, raised |-> FALSE]

iterative_done(c) == c.raised \/ c.tree[1].score # None

\* one iteration of the while loop
iterative_step(c) ==
    LET id == c.s[Len(c.s)]
        curr_game == c.tree[id]
        pop == SubSeq(c.s, 1, Len(c.s) - 1)
    IN  IF is_over(curr_game.game.current_state)
        THEN [c EXCEPT !.tree[id].score =
                          IF \/ is_winner(curr_game.game, "p2")
                             \/ is_winner(curr_game.game, "p1")
                          THEN <<-1>> ELSE <<0>>,
                       !.s = pop]
        ELSE IF curr_game.children = <<>>
        THEN LET mvs == get_possible_moves(curr_game.game.current_state)
                 n == Len(c.tree)
                 kids == [k \in 1..Len(mvs) |-> n + k]
             IN  [c EXCEPT !.tree = [@ EXCEPT ![id].children = kids] \o
                                    [k \in 1..Len(mvs) |->
                                       GameTree(game_after(curr_game.game, mvs[k]))],
                           !.s = Append(@, id) \o kids]
        ELSE IF \E k \in 1..Len(curr_game.children) :
                    c.tree[curr_game.children[k]].score = None
        THEN [c EXCEPT !.raised = TRUE]
        ELSE [c EXCEPT !.tree[id].score =
                          <<children_score([k \in 1..Len(curr_game.children) |->
                                  c.tree[curr_game.children[k]].score[1]])>>,
                       !.s = pop]

\* up to 2^k iterations of the loop, stopping when its condition fails
RECURSIVE iterative_run(_, _)
iterative_run(c, k) ==
    IF iterative_done(c) THEN c
    ELSE IF k = 0 THEN iterative_step(c)
    ELSE iterative_run(iterative_run(c, k - 1), k - 1)

\* [done, raised, score]: done is FALSE when the loop is still running
\* after 2^IterFuel iterations
iterative_helper(game) ==
    LET c == iterative_run(iterative_start(game), IterFuel)
    IN  [done |-> iterative_done(c), raised |-> c.raised,
         score |-> c.tree[1].score]

\* [done, raised, move]: done is FALSE when a call of iterative_helper was
\* still running after 2^IterFuel iterations
iterative_minimax(game) ==
    LET mvs == get_possible_moves(game.current_state)
        res == [k \in 1..Len(mvs) |->
                   iterative_helper(game_after(game, mvs[k]))]
    IN  IF \E k \in 1..Len(mvs) : ~res[k].done
        THEN [done |-> FALSE, raised |-> FALSE, move |-> ""]
        ELSE IF \E k \in 1..Len(mvs) : res[k].raised
        THEN [done |-> TRUE, raised |-> TRUE, move |-> ""]
        ELSE LET best == best_of(mvs, [k \in 1..Len(mvs) |-> -1 * res[k].score[1]])
             IN  [done |-> TRUE, raised |-> best.raised, move |-> best.move]

\* the bug of replacing the best move on an equal score, not only on a
\* larger one
RECURSIVE rough_loop_geq(_, _, _, _)
rough_loop_geq(current_state, mvs, k, b) ==
    IF k > Len(mvs) \/ b.raised THEN b
    ELSE LET new_state == make_move(current_state.heap, current_state.ss, mvs[k])
             guessed_score == rough_outcome(new_state.heap, new_state.ss) * (-1)
         IN  rough_loop_geq(current_state, mvs, k + 1,
                 IF new_state.raised THEN [b EXCEPT !.raised = TRUE]
                 ELSE IF guessed_score >= b.best_outcome
                 THEN [b EXCEPT !.best_move = <<mvs[k]>>,
                                !.best_outcome = guessed_score]
                 ELSE b)

\* the for loop of rough_outcome_strategy from the k-th move on; b holds
\* best_move (None or <<move>>), best_outcome, and whether a call raised
RECURSIVE rough_loop(_, _, _, _)
rough_loop(current_state, mvs, k, b) ==
    IF k > Len(mvs) \/ b.raised THEN b
    ELSE LET new_state == make_move(current_state.heap, current_state.ss, mvs[k])
             guessed_score == rough_outcome(new_state.heap, new_state.ss) * (-1)
         IN  rough_loop(current_state, mvs, k + 1,
                 IF new_state.raised THEN [b EXCEPT !.raised = TRUE]
                 ELSE IF guessed_score > b.best_outcome
                 THEN [b EXCEPT !.best_move = <<mvs[k]>>,
                                !.best_outcome = guessed_score]
                 ELSE b)

\* [raised, move]: move is None or <<move>>
rough_outcome_strategy(game) ==
    LET b == rough_loop([heap |-> game.heap, ss |-> game.current_state],
                        get_possible_moves(game.current_state), 1,
                        [best_move |-> None, best_outcome |-> -2,
                         raised |-> FALSE])
    IN  [raised |-> b.raised, move |-> b.best_move]

(* ---------------------------- play ------------------------------------- *)

cur == hist[Len(hist)]

\* no call of iterative_helper is running: no GameTree exists, s is empty
NoLoop == [tree |-> <<>>, s |-> <<>>, raised |-> FALSE]

\* the current state as its holder reads it
CurView == View(heap, cur)

Init ==
    \E is_p1 \in BOOLEAN, b_length \in 1..MaxBLength :
        LET g == new_game(is_p1, b_length)
        IN  /\ heap = g.heap
            /\ hist = <<g.current_state>>
            /\ snaps = <<View(g.heap, g.current_state)>>
            /\ moves = <<"">>
            /\ rejected = ""
            /\ loop = NoLoop

\* the driver asks the current state for a legal move and replaces it by
\* the state make_move returns; the caller keeps the last MaxHist states
MakeMove ==
    \E move \in {cur.possible_moves[i] : i \in 1..Len(cur.possible_moves)} :
        LET res == make_move(heap, cur, move)
            drop == IF Len(hist) >= MaxHist THEN 1 ELSE 0
            kept == SubSeq(hist, 1 + drop, Len(hist)) \o <<res.ss>>
            gc == collect(res.heap, kept)
        IN  /\ ~res.raised
            /\ heap' = gc.heap
            /\ hist' = gc.states
            /\ snaps' = SubSeq(snaps, 1 + drop, Len(snaps))
                           \o <<View(res.heap, res.ss)>>
            /\ moves' = [k \in 1..Len(kept) |->
                            IF k = 1 THEN ""
                            ELSE IF k = Len(kept) THEN move
                            ELSE moves[k + drop]]
            /\ rejected' = ""
            /\ loop' = loop

\* the driver's loop proper: game.current_state is replaced by the state
\* make_move returns and nobody holds the state it replaces
Play ==
    \E move \in {cur.possible_moves[i] : i \in 1..Len(cur.possible_moves)} :
        LET res == make_move(heap, cur, move)
            gc == collect(res.heap, <<res.ss>>)
        IN  /\ ~res.raised
            /\ heap' = gc.heap
            /\ hist' = gc.states
            /\ snaps' = <<View(res.heap, res.ss)>>
            /\ moves' = <<"">>
            /\ rejected' = ""
            /\ loop' = loop

\* the labels a caller may pass to make_move: the cells of the largest board
Labels == {ALPHA[i] : i \in 1..num_cells(MaxBLength)}

\* a caller applies any label to the current state: make_move either raises
\* at possible_moves.remove(move), and then the caller holds what it held
\* and the objects built so far are garbage, or returns the new state.
\* Nothing catches the ValueError, so the run ends with it.
MakeMoveAny ==
    \E move \in Labels :
        LET res == make_move(heap, cur, move)
        IN  /\ rejected = ""
            /\ loop' = loop
            /\ IF res.raised
               THEN LET gc == collect(res.heap, hist)
                    IN  /\ heap' = gc.heap
                        /\ hist' = gc.states
                        /\ UNCHANGED <<snaps, moves>>
                        /\ rejected' = move
               ELSE LET drop == IF Len(hist) >= MaxHist THEN 1 ELSE 0
                        kept == SubSeq(hist, 1 + drop, Len(hist)) \o <<res.ss>>
                        gc == collect(res.heap, kept)
                    IN  /\ heap' = gc.heap
                        /\ hist' = gc.states
                        /\ snaps' = SubSeq(snaps, 1 + drop, Len(snaps))
                                       \o <<View(res.heap, res.ss)>>
                        /\ moves' = [k \in 1..Len(kept) |->
                                        IF k = 1 THEN ""
                                        ELSE IF k = Len(kept) THEN move
                                        ELSE moves[k + drop]]
                        /\ rejected' = ""

\* the game the strategies are handed: the driver's game at its current state
Game == game_of(heap, cur)

Next == MakeMove

Spec == Init /\ [][Next]_vars

NextSearch == Play

SpecSearch == Init /\ [][NextSearch]_vars

\* make_move can be called: the current state has a possible move
MoveIsPossible == cur.possible_moves # <<>>

\* weak fairness of the driver's loop, WF_vars(NextSearch), written with the
\* guard of Play in place of ENABLED: the loop calls make_move again as long
\* as a move is possible, so a play does not stop while one is
LoopGoesOn == []<>(~MoveIsPossible) \/ []<><<TRUE>>_vars

SpecLive == Init /\ [][NextSearch]_vars /\ LoopGoesOn

\* iterative_helper is called on a game with at most MaxIterMoves possible
\* moves: s = [], gt = GameTree(game), s.append(gt)
IterCall ==
    /\ loop = NoLoop
    /\ Len(cur.possible_moves) <= MaxIterMoves
    /\ loop' = iterative_start(Game)
    /\ UNCHANGED <<heap, hist, snaps, moves, rejected>>

\* one iteration of the while loop of the running call
IterStep ==
    /\ loop # NoLoop
    /\ ~iterative_done(loop)
    /\ loop' = iterative_step(loop)
    /\ UNCHANGED <<heap, hist, snaps, moves, rejected>>

\* the loop has ended (or -1 * None raised): the call is over and its
\* GameTree objects are garbage
IterReturn ==
    /\ loop # NoLoop
    /\ iterative_done(loop)
    /\ loop' = NoLoop
    /\ UNCHANGED <<heap, hist, snaps, moves, rejected>>

\* the play goes on between calls, not during one
PlayBetweenCalls == loop = NoLoop /\ Play

NextIter == PlayBetweenCalls \/ IterCall \/ IterStep \/ IterReturn

SpecIter == Init /\ [][NextIter]_vars

\* a call of iterative_helper is in its while loop
LoopRunning == loop # NoLoop /\ ~iterative_done(loop)

\* weak fairness of the loop's iteration, WF_vars(IterStep), written with
\* the guard of IterStep in place of ENABLED: the interpreter executes the
\* next iteration as long as the loop condition holds
IterGoesOn == []<>(~LoopRunning) \/ []<><<LoopRunning>>_vars

SpecIterLive == Init /\ [][NextIter]_vars /\ IterGoesOn

\* the board lengths for which the generated geometry is examined
BoardLengths == 1..5

\* Stonehenge.__init__ with a board length from BoardLengths at the prompt
InitGeo ==
    \E is_p1 \in BOOLEAN, b_length \in BoardLengths :
        LET g == new_game(is_p1, b_length)
        IN  /\ heap = g.heap
            /\ hist = <<g.current_state>>
            /\ snaps = <<View(g.heap, g.current_state)>>
            /\ moves = <<"">>
            /\ rejected = ""
            /\ loop = NoLoop

\* the first move on the generated board
FirstMove == Len(hist) = 1 /\ MakeMove

NextGeo == FirstMove

SpecGeo == InitGeo /\ [][NextGeo]_vars

NextAny == MakeMoveAny

SpecAny == Init /\ [][NextAny]_vars

(* ---------------------------- vocabulary of the properties ------------- *)

Families == {"h_lines", "r_lines", "l_lines"}

Players == {"1", "2"}

\* the boards as generated, before any move
Generated ==
    [b_length \in 1..MaxBLength |->
        LET g == new_game(TRUE, b_length)
        IN  View(g.heap, g.current_state)]

Geometry(b_length) == Generated[b_length]

Lines(view) == {<<f, k>> : f \in Families, k \in 1..(view.b_length + 1)}

Line(view, fk) == view[fk[1]][fk[2]]

CellSets ==
    [b_length \in 1..MaxBLength |->
        UNION {{Generated[b_length].h_lines[k].letters[i] :
                    i \in 1..Len(Generated[b_length].h_lines[k].letters)} :
                  k \in 1..(b_length + 1)}]

Cells(b_length) == CellSets[b_length]

\* <<k, i>>: cell c was generated as the i-th cell of leyline k of family f
Places ==
    [b_length \in 1..MaxBLength |->
        [f \in Families |->
            [c \in CellSets[b_length] |->
                CHOOSE ki \in (1..(b_length + 1)) \X (1..(b_length + 2)) :
                    /\ ki[2] <= Len(Generated[b_length][f][ki[1]].letters)
                    /\ Generated[b_length][f][ki[1]].letters[ki[2]] = c]]]

\* what stands at the place of cell c in family f: c itself, "1" or "2"
Mark(view, f, c) ==
    LET ki == Places[view.b_length][f][c]
    IN  view[f][ki[1]].letters[ki[2]]

Owned(ley, p) == ley.value = <<"str", p>>

Unclaimed(ley) == ley.value[1] = "int"

Score(view, p) == IF p = "1" THEN view.p1_score ELSE view.p2_score

Mover(view) == IF view.p1_turn THEN "1" ELSE "2"

\* a score has reached at least half of the 3 * (b_length + 1) leylines
ScoreReached(view) ==
    \E p \in Players : 2 * Score(view, p) >= 3 * (view.b_length + 1)

Last == Len(hist)

\* the receiver of the last make_move as it read when it was returned
Before == snaps[Last - 1]

(* ---------------------------- C1 --------------------------------------- *)

\* C1: on every reachable state recursive_helper and iterative_helper
\* return the same value, and on every reachable state that is not over
\* recursive_minimax and iterative_minimax return the same move (a call is
\* compared once its loop has ended).
C1_MinimaxAgree ==
    LET ih == iterative_helper(Game)
        im == iterative_minimax(Game)
    IN  /\ ih.done =>
              /\ ~ih.raised
              /\ ih.score = <<recursive_helper(Game)>>
        /\ (~ScoreReached(CurView) /\ im.done) =>
              /\ ~im.raised
              /\ ~recursive_minimax(Game).raised
              /\ recursive_minimax(Game).move = im.move

\* a position with several moves left on which both searches have returned
\* and agree on a move that is not simply the first legal one
C1_Witness ==
    /\ ~ScoreReached(CurView)
    /\ Len(cur.possible_moves) = 4
    /\ iterative_helper(Game).done
    /\ iterative_helper(Game).score = <<recursive_helper(Game)>>
    /\ iterative_minimax(Game).done
    /\ recursive_minimax(Game).move = iterative_minimax(Game).move
    /\ recursive_minimax(Game).move # cur.possible_moves[1]

(* ---------------------------- C2 --------------------------------------- *)

\* the negamax value of a position for the player to move: -1 when a score
\* has reached the threshold, 0 when no move is left otherwise, else the
\* largest negated value of a position one legal move away
RECURSIVE Negamax(_, _)
Negamax(hp, st) ==
    IF ScoreReached(st) THEN -1
    ELSE IF st.possible_moves = <<>> THEN 0
    ELSE LET vals == {-1 * Negamax(make_move(hp, st, st.possible_moves[k]).heap,
                                   make_move(hp, st, st.possible_moves[k]).ss) :
                         k \in 1..Len(st.possible_moves)}
         IN  CHOOSE v \in vals : \A w \in vals : w <= v

\* the negated negamax value of the position each legal move leads to
AfterValues ==
    [k \in 1..Len(cur.possible_moves) |->
        -1 * Negamax(make_move(heap, cur, cur.possible_moves[k]).heap,
                     make_move(heap, cur, cur.possible_moves[k]).ss)]

\* C2: on every reachable state that is not over, recursive_minimax returns
\* a legal move whose negated child value is maximal among the legal moves,
\* and every legal move listed before it has a smaller negated child value.
C2_RecursiveMinimaxIsArgmax ==
    ~ScoreReached(CurView) =>
        LET rm == recursive_minimax(Game)
            val == AfterValues
        IN  /\ ~rm.raised
            /\ \E k \in 1..Len(cur.possible_moves) :
                  /\ cur.possible_moves[k] = rm.move
                  /\ \A j \in 1..Len(cur.possible_moves) : val[j] <= val[k]
                  /\ \A j \in 1..(k - 1) : val[j] < val[k]

\* the chosen move wins, it is not the first legal move, and the first
\* legal move loses
C2_Witness ==
    /\ ~ScoreReached(CurView)
    /\ Len(cur.possible_moves) = 5
    /\ AfterValues[1] = -1
    /\ recursive_minimax(Game).move # cur.possible_moves[1]
    /\ recursive_helper(Game) = 1

(* ---------------------------- C3 --------------------------------------- *)

\* C3: after make_move(m), a leyline that contains m and was unclaimed
\* before the move is owned by the mover if the mover now holds at least
\* half of its cells and is still unclaimed otherwise; a leyline that was
\* already captured keeps its owner.
C3_CaptureRule ==
    Last >= 2 =>
        \A fk \in Lines(Before) :
            LET a == Line(Before, fk)
                b == Line(CurView, fk)
                mover == Mover(Before)
            IN  /\ (Unclaimed(a) /\ contains(a.letters, moves[Last])) =>
                      IF 2 * count(b.letters, mover) >= Len(b.letters)
                      THEN Owned(b, mover)
                      ELSE b.value = a.value
                /\ ~Unclaimed(a) => b.value = a.value

\* one move captured a leyline of three cells with its second cell and left
\* another leyline through the same cell unclaimed
C3_Witness ==
    /\ Last >= 2
    /\ \E fk \in Lines(Before) :
          /\ Unclaimed(Line(Before, fk))
          /\ contains(Line(Before, fk).letters, moves[Last])
          /\ Len(Line(CurView, fk).letters) = 3
          /\ Owned(Line(CurView, fk), Mover(Before))
    /\ \E fk \in Lines(Before) :
          /\ contains(Line(Before, fk).letters, moves[Last])
          /\ Unclaimed(Line(CurView, fk))

(* ---------------------------- C4 --------------------------------------- *)

\* C4 as stated: the owner of every captured leyline holds strictly more
\* than half of the leyline's cells.
C4_OwnerHoldsMoreThanHalf ==
    \A fk \in Lines(CurView), p \in Players :
        Owned(Line(CurView, fk), p) =>
            2 * count(Line(CurView, fk).letters, p) > Len(Line(CurView, fk).letters)

\* C4 amended: the owner of every captured leyline holds at least half of
\* the leyline's cells.
C4_OwnerHoldsAtLeastHalf ==
    \A fk \in Lines(CurView), p \in Players :
        Owned(Line(CurView, fk), p) =>
            2 * count(Line(CurView, fk).letters, p) >= Len(Line(CurView, fk).letters)

\* a captured leyline whose owner holds exactly half of its cells while the
\* other player holds the other half
C4_Witness ==
    \E fk \in Lines(CurView), p \in Players, q \in Players :
        /\ p # q
        /\ Owned(Line(CurView, fk), p)
        /\ 2 * count(Line(CurView, fk).letters, p) = Len(Line(CurView, fk).letters)
        /\ 2 * count(Line(CurView, fk).letters, q) = Len(Line(CurView, fk).letters)

(* ---------------------------- C5 --------------------------------------- *)

\* C5: each player's score is the number of leylines that player owns over
\* the three families, so the two scores add up to the number of captured
\* leylines.
C5_ScoreIsOwnedCount ==
    /\ \A p \in Players :
          Score(CurView, p) =
              Cardinality({fk \in Lines(CurView) : Owned(Line(CurView, fk), p)})
    /\ CurView.p1_score + CurView.p2_score =
          Cardinality({fk \in Lines(CurView) : ~Unclaimed(Line(CurView, fk))})

\* both players own leylines, one of them captured two with the last move
C5_Witness ==
    /\ Last >= 2
    /\ CurView.p1_score >= 1
    /\ CurView.p2_score >= 1
    /\ \E p \in Players : Score(CurView, p) >= Score(Before, p) + 2

(* ---------------------------- C6 --------------------------------------- *)

NumClaimed(view) ==
    Cardinality({c \in Cells(view.b_length) : Mark(view, "h_lines", c) \in Players})

\* C6 as stated: in every state, terminal ones included, the number of
\* legal moves plus the number of claimed cells is the number of cells.
C6_MovesPlusClaimedIsTotal ==
    Len(CurView.possible_moves) + NumClaimed(CurView)
        = Cardinality(Cells(CurView.b_length))

\* C6 amended: in every state where no score has reached the win threshold
\* the number of legal moves plus the number of claimed cells is the number
\* of cells; in the other states there is no legal move.
C6_MovesPlusClaimedIsTotalUnlessOver ==
    IF ScoreReached(CurView)
    THEN CurView.possible_moves = <<>>
    ELSE Len(CurView.possible_moves) + NumClaimed(CurView)
            = Cardinality(Cells(CurView.b_length))

\* a position after four moves that is not over, with three legal moves left
C6_Witness ==
    /\ ~ScoreReached(CurView)
    /\ NumClaimed(CurView) = 4
    /\ Len(CurView.possible_moves) = 3

(* ---------------------------- C7 --------------------------------------- *)

\* C7: a leyline owned by a player is owned by the same player after every
\* further make_move.
C7_CaptureIsPermanent ==
    [][\A fk \in Lines(CurView) :
          ~Unclaimed(Line(CurView, fk)) =>
              Line(CurView, fk).value = Line(CurView, fk)'.value]_vars

\* the other player has since taken at least half of a captured leyline,
\* the last cell of it with the last move, and the owner is the same
C7_Witness ==
    /\ Last >= 2
    /\ \E fk \in Lines(Before), p \in Players :
          /\ Owned(Line(Before, fk), p)
          /\ p # Mover(Before)
          /\ contains(Line(Before, fk).letters, moves[Last])
          /\ 2 * count(Line(CurView, fk).letters, Mover(Before))
                >= Len(Line(CurView, fk).letters)
          /\ Owned(Line(CurView, fk), p)

(* ---------------------------- C8 --------------------------------------- *)

\* C8: a cell claimed by a player carries that player's mark in each of its
\* three leylines after every further make_move, and a claimed cell is
\* never among the possible moves.
C8_ClaimIsPermanent ==
    [][\A c \in Cells(CurView.b_length) :
          /\ \A f \in Families :
                Mark(CurView, f, c) \in Players =>
                    Mark(CurView, f, c)' = Mark(CurView, f, c)
          /\ (\E f \in Families : Mark(CurView, f, c)' \in Players) =>
                ~contains(CurView.possible_moves', c)]_vars

\* a cell claimed two moves ago is still marked in its three leylines while
\* the play goes on
C8_Witness ==
    /\ Last >= 3
    /\ CurView.possible_moves # <<>>
    /\ \A f \in Families :
          Mark(CurView, f, moves[Last - 1]) = Mover(snaps[Last - 2])

(* ---------------------------- C9 --------------------------------------- *)

\* C9: possible_moves is empty exactly when is_over holds, which is exactly
\* when a score is at least ceil(3 * (b_length + 1) / 2).
C9_NoMovesIffOver ==
    /\ (CurView.possible_moves = <<>>) <=> is_over(cur)
    /\ is_over(cur) <=> ScoreReached(CurView)

\* the game is over with no legal move although cells are unclaimed
C9_Witness ==
    /\ is_over(cur)
    /\ CurView.possible_moves = <<>>
    /\ CurView.b_length = 2
    /\ NumClaimed(CurView) < Cardinality(Cells(CurView.b_length))

(* ---------------------------- C10 -------------------------------------- *)

\* C10: every state still held reads exactly as it did when it was
\* returned: make_move changes neither its receiver nor any earlier state.
C10_ReceiverUnchanged ==
    \A i \in 1..Last : View(heap, hist[i]) = snaps[i]

\* two moves were applied in a row, each capturing a leyline, while the
\* first receiver is still held
C10_Witness ==
    /\ Last >= 3
    /\ snaps[2].p1_score + snaps[2].p2_score > snaps[1].p1_score + snaps[1].p2_score
    /\ snaps[3].p1_score + snaps[3].p2_score > snaps[2].p1_score + snaps[2].p2_score

(* ---------------------------- C11 -------------------------------------- *)

\* a step that raised keeps what every held state read; a step that
\* returned a state applied a move that was among the possible moves
C11_Step ==
    IF rejected' # ""
    THEN /\ ~contains(CurView.possible_moves, rejected')
         /\ snaps' = snaps
         /\ moves' = moves
         /\ \A i \in 1..Last : View(heap, hist[i])' = snaps[i]
    ELSE contains(CurView.possible_moves, moves'[Len(hist')])

\* make_move raises on every label that is not among the possible moves of
\* the current state, in particular on the move that produced it
C11_Raises ==
    /\ \A c \in Labels :
          ~contains(CurView.possible_moves, c) => make_move(heap, cur, c).raised
    /\ Last >= 2 => make_move(heap, cur, moves[Last]).raised

\* C11: make_move raises on every label that is not among the possible
\* moves of its receiver, in particular on the move that produced the
\* receiver; a call that raises leaves every held state reading as before,
\* and a state is returned only for a move that was among the possible moves.
C11_IllegalMoveRejected == []C11_Raises /\ [][C11_Step]_vars

\* the move that produced the current state was applied to it again and
\* raised, while the play is not over and other moves are possible
C11_Witness ==
    /\ Last >= 2
    /\ rejected = moves[Last]
    /\ CurView.possible_moves # <<>>
    /\ \A i \in 1..Last : View(heap, hist[i]) = snaps[i]

(* ---------------------------- C12 -------------------------------------- *)

\* C12 as stated: on a game whose current state is over, each of
\* recursive_minimax, iterative_minimax and rough_outcome_strategy raises an
\* error instead of returning.
C12_StrategiesFailOnTerminal ==
    is_over(cur) =>
        LET im == iterative_minimax(Game)
        IN  /\ recursive_minimax(Game).raised
            /\ im.done /\ im.raised
            /\ rough_outcome_strategy(Game).raised

(* ---------------------------- C13 -------------------------------------- *)

\* C13: on every reachable state that is not over, recursive_minimax,
\* iterative_minimax and rough_outcome_strategy each return, without
\* raising, a move that is among the possible moves of that state.
C13_StrategiesReturnLegalMove ==
    ~is_over(cur) =>
        LET rm == recursive_minimax(Game)
            im == iterative_minimax(Game)
            ro == rough_outcome_strategy(Game)
        IN  /\ ~rm.raised /\ contains(cur.possible_moves, rm.move)
            /\ im.done => (~im.raised /\ contains(cur.possible_moves, im.move))
            /\ ~ro.raised /\ ro.move # None
            /\ contains(cur.possible_moves, ro.move[1])

\* a position with four moves left where the heuristic strategy and the
\* minimax strategies return different legal moves, neither the first one
C13_Witness ==
    LET rm == recursive_minimax(Game)
        im == iterative_minimax(Game)
        ro == rough_outcome_strategy(Game)
    IN  /\ ~is_over(cur)
        /\ Len(cur.possible_moves) = 4
        /\ im.done /\ contains(cur.possible_moves, im.move)
        /\ contains(cur.possible_moves, rm.move)
        /\ ro.move # None /\ contains(cur.possible_moves, ro.move[1])
        /\ ro.move[1] # rm.move
        /\ ro.move[1] # cur.possible_moves[1]
        /\ rm.move # cur.possible_moves[1]

(* ---------------------------- C14 -------------------------------------- *)

\* the player to move wins with move: in the state make_move returns, that
\* player's score has reached the win threshold
WinsWith(hp, st, move) ==
    LET after == make_move(hp, st, move).ss
    IN  2 * (IF st.p1_turn THEN after.p1_score ELSE after.p2_score)
            >= 3 * (st.b_length + 1)

\* the player to move in st has a possible move that wins at once
CanWinNow(hp, st) ==
    \E k \in 1..Len(st.possible_moves) : WinsWith(hp, st, st.possible_moves[k])

\* C14: on every reachable state, rough_outcome returns -1 when the state
\* is over, and returns 1 exactly when the state is not over and the player
\* to move has a possible move after which that player has won.
C14_RoughOutcomeOverAndWin ==
    LET ro == rough_outcome(heap, cur)
    IN  /\ ScoreReached(CurView) => ro = -1
        /\ ro = 1 <=> (~ScoreReached(CurView) /\ CanWinNow(heap, cur))

\* player 2 is to move on board 2 and wins with a move that is not the
\* first possible one, while the first possible move does not win
C14_Witness ==
    /\ ~ScoreReached(CurView)
    /\ ~cur.p1_turn
    /\ cur.b_length = 2
    /\ ~WinsWith(heap, cur, cur.possible_moves[1])
    /\ CanWinNow(heap, cur)
    /\ rough_outcome(heap, cur) = 1

(* ---------------------------- C15 -------------------------------------- *)

\* every possible move of st leads to a state whose player to move has a
\* possible move that wins at once
EveryMoveLetsOtherWin(hp, st) ==
    \A k \in 1..Len(st.possible_moves) :
        LET after == make_move(hp, st, st.possible_moves[k])
        IN  CanWinNow(after.heap, after.ss)

\* C15 as stated: on every reachable state that is not over and where the
\* player to move cannot win at once, rough_outcome returns -1 if every
\* move leads to a state where the other player can win at once, and 0
\* otherwise.
C15_RoughOutcomeNoWin ==
    (~ScoreReached(CurView) /\ ~CanWinNow(heap, cur)) =>
        rough_outcome(heap, cur) =
            IF EveryMoveLetsOtherWin(heap, cur) THEN -1 ELSE 0

(* ---------------------------- C16 -------------------------------------- *)

\* -1 * rough_outcome of the state each possible move leads to
RoughValues ==
    [k \in 1..Len(cur.possible_moves) |->
        LET after == make_move(heap, cur, cur.possible_moves[k])
        IN  -1 * rough_outcome(after.heap, after.ss)]

\* C16: on every reachable state that is not over, rough_outcome_strategy
\* returns a possible move whose state has the largest negated
\* rough_outcome, and every possible move listed before it has a smaller
\* negated rough_outcome.
C16_RoughStrategyIsFirstArgmax ==
    ~ScoreReached(CurView) =>
        LET ro == rough_outcome_strategy(Game)
            val == RoughValues
        IN  /\ ~ro.raised
            /\ ro.move # None
            /\ \E k \in 1..Len(cur.possible_moves) :
                  /\ cur.possible_moves[k] = ro.move[1]
                  /\ \A j \in 1..Len(cur.possible_moves) : val[j] <= val[k]
                  /\ \A j \in 1..(k - 1) : val[j] < val[k]

\* the move returned is neither the first nor the last possible move: the
\* moves before it have a smaller value and a later move has the same value
C16_Witness ==
    LET ro == rough_outcome_strategy(Game)
        val == RoughValues
    IN  /\ ~ScoreReached(CurView)
        /\ ro.move # None
        /\ \E k \in 2..(Len(cur.possible_moves) - 1) :
              /\ cur.possible_moves[k] = ro.move[1]
              /\ val[1] < val[k]
              /\ \E j \in (k + 1)..Len(cur.possible_moves) : val[j] = val[k]

(* ---------------------------- C17 -------------------------------------- *)

\* the current state was returned by make_move("A") of player 1 on the
\* board of length 1 as generated
AfterFirstMoveA ==
    /\ Last = 2
    /\ Before = Generated[1]
    /\ Before.p1_turn
    /\ moves[Last] = "A"

\* C17 as stated: on the board of length 1, after player 1 claims A in the
\* initial state, player 1 has score 1 and the game is not over.
C17_FirstMoveScoresOne ==
    AfterFirstMoveA => (CurView.p1_score = 1 /\ ~is_over(cur))

\* C17 amended: on the board of length 1, after player 1 claims A in the
\* initial state, player 1 has score 3, player 2 has score 0, and the game
\* is over with no possible move.
C17_FirstMoveScoresThree ==
    AfterFirstMoveA =>
        /\ CurView.p1_score = 3
        /\ CurView.p2_score = 0
        /\ is_over(cur)
        /\ CurView.possible_moves = <<>>

\* player 1 has claimed A on the board of length 1 and owns the three
\* leylines through A
C17_Witness ==
    /\ AfterFirstMoveA
    /\ Owned(CurView.h_lines[1], "1")
    /\ Owned(CurView.r_lines[1], "1")
    /\ Owned(CurView.l_lines[2], "1")

(* ---------------------------- C18 -------------------------------------- *)

\* the current state was returned by the first make_move on the board of
\* length 1, and the initial state is still held
AfterFirstMoveOnBoardOne ==
    /\ Last = 2
    /\ Before.b_length = 1
    /\ NumClaimed(Before) = 0

\* C18: on the board of length 1 every first move captures three leylines
\* for the mover, whose score 3 reaches the win threshold 3, while the other
\* player has none; check_good_move of the initial state holds for that
\* move, give_copy returns a state with the same scores, and rough_outcome
\* of the initial state is 1.
C18_FirstMoveWinsOnBoardOne ==
    AfterFirstMoveOnBoardOne =>
        LET mover == Mover(Before)
            other == IF mover = "1" THEN "2" ELSE "1"
            copy == give_copy(heap, hist[1], moves[Last])
        IN  /\ Cardinality({fk \in Lines(CurView) :
                               /\ Unclaimed(Line(Before, fk))
                               /\ Owned(Line(CurView, fk), mover)}) = 3
            /\ Score(CurView, mover) = 3
            /\ Score(CurView, other) = 0
            /\ win_threshold(1) = 3
            /\ is_over(cur)
            /\ ~copy.raised
            /\ Score(copy.ss, mover) = 3
            /\ Score(copy.ss, other) = 0
            /\ check_good_move(heap, hist[1], moves[Last])
            /\ rough_outcome(heap, hist[1]) = 1

\* player 2 moved first on the board of length 1, claimed C and has won
C18_Witness ==
    /\ AfterFirstMoveOnBoardOne
    /\ ~Before.p1_turn
    /\ moves[Last] = "C"
    /\ CurView.p2_score = 3
    /\ check_good_move(heap, hist[1], "C")
    /\ rough_outcome(heap, hist[1]) = 1

(* ---------------------------- C19 -------------------------------------- *)

\* C19: after make_move(m) with m a possible move, exactly one leyline of
\* each family held m; there m is replaced by the mover's mark, every other
\* place of every leyline holds what it held, and the turn has passed to
\* the other player.
C19_MoveMarksCell ==
    Last >= 2 =>
        LET m == moves[Last]
            mover == Mover(Before)
        IN  /\ contains(Before.possible_moves, m)
            /\ \A f \in Families :
                  Cardinality({k \in 1..(Before.b_length + 1) :
                                  contains(Before[f][k].letters, m)}) = 1
            /\ \A fk \in Lines(Before) :
                  /\ Len(Line(CurView, fk).letters) = Len(Line(Before, fk).letters)
                  /\ \A i \in 1..Len(Line(Before, fk).letters) :
                        Line(CurView, fk).letters[i] =
                            IF Line(Before, fk).letters[i] = m THEN mover
                            ELSE Line(Before, fk).letters[i]
            /\ \A f \in Families : Mark(CurView, f, m) = mover
            /\ CurView.p1_turn = ~Before.p1_turn

\* player 2 has claimed a cell of a three-cell leyline in which player 1
\* holds a cell, and player 1 is to move
C19_Witness ==
    /\ Last >= 2
    /\ ~Before.p1_turn
    /\ CurView.p1_turn
    /\ \A f \in Families : Mark(CurView, f, moves[Last]) = "2"
    /\ \E fk \in Lines(Before) :
          /\ Len(Line(Before, fk).letters) = 3
          /\ contains(Line(Before, fk).letters, moves[Last])
          /\ contains(Line(CurView, fk).letters, "1")
          /\ contains(Line(CurView, fk).letters, "2")

(* ---------------------------- C20 -------------------------------------- *)

\* the leylines captured by the last make_move: unclaimed in its receiver,
\* claimed in the state it returned
NewlyCaptured ==
    {fk \in Lines(Before) :
        Unclaimed(Line(Before, fk)) /\ ~Unclaimed(Line(CurView, fk))}

\* C20: a make_move raises the mover's score by the number of leylines
\* captured in that move, which is 0, 1, 2 or 3 and which the mover then
\* owns, and leaves the other player's score as it was.
C20_ScoreRisesByCaptures ==
    Last >= 2 =>
        LET mover == Mover(Before)
            other == IF mover = "1" THEN "2" ELSE "1"
        IN  /\ Score(CurView, mover)
                  = Score(Before, mover) + Cardinality(NewlyCaptured)
            /\ Cardinality(NewlyCaptured) \in 0..3
            /\ \A fk \in NewlyCaptured : Owned(Line(CurView, fk), mover)
            /\ Score(CurView, other) = Score(Before, other)

\* on board 2 player 2 captured three leylines with one move while player 1
\* keeps the score it had, which is not zero
C20_Witness ==
    /\ Last >= 2
    /\ CurView.b_length = 2
    /\ ~Before.p1_turn
    /\ Cardinality(NewlyCaptured) = 3
    /\ CurView.p2_score = Before.p2_score + 3
    /\ CurView.p1_score = Before.p1_score
    /\ CurView.p1_score >= 1

(* ---------------------------- C21 -------------------------------------- *)

\* C21: after make_move(m) the possible moves of the new state are those
\* of the receiver without m, in the same order, unless a score has reached
\* the win threshold: then there is no possible move.
C21_MovesAfterMove ==
    Last >= 2 =>
        /\ count(Before.possible_moves, moves[Last]) = 1
        /\ CurView.possible_moves =
              IF ScoreReached(CurView) THEN <<>>
              ELSE SelectSeq(Before.possible_moves,
                             LAMBDA x : x # moves[Last])

\* a move from the middle of the list was applied and the play goes on with
\* the moves before and after it, in their order
C21_Witness ==
    /\ Last >= 2
    /\ ~ScoreReached(CurView)
    /\ Len(Before.possible_moves) >= 5
    /\ moves[Last] = Before.possible_moves[3]
    /\ CurView.possible_moves =
          SubSeq(Before.possible_moves, 1, 2)
              \o SubSeq(Before.possible_moves, 4, Len(Before.possible_moves))

(* ---------------------------- C22 -------------------------------------- *)

\* the name is_winner knows a player by
Name(p) == IF p = "1" THEN "p1" ELSE "p2"

\* C22: in every reachable state that is over, the player who made the last
\* move has reached the win threshold and is the winner, the player to
\* move has not and is not, and both helpers give the state the value -1.
C22_LastMoverWon ==
    is_over(cur) =>
        LET loser == Mover(CurView)
            winner == IF loser = "1" THEN "2" ELSE "1"
            ih == iterative_helper(Game)
        IN  /\ Last >= 2
            /\ winner = Mover(Before)
            /\ Score(CurView, winner) >= win_threshold(cur.b_length)
            /\ Score(CurView, loser) < win_threshold(cur.b_length)
            /\ is_winner(Game, Name(winner))
            /\ ~is_winner(Game, Name(loser))
            /\ recursive_helper(Game) = -1
            /\ ih.done /\ ~ih.raised /\ ih.score = <<-1>>

\* player 2 has just won on board 2 against a player 1 who holds leylines,
\* and player 1 is to move
C22_Witness ==
    /\ is_over(cur)
    /\ Last >= 2
    /\ cur.b_length = 2
    /\ ~Before.p1_turn
    /\ cur.p1_turn
    /\ is_winner(Game, "p2")
    /\ cur.p1_score >= 1
    /\ recursive_helper(Game) = -1

(* ---------------------------- C23 -------------------------------------- *)

\* C23: in every reachable state at most one score is at or above the win
\* threshold; when the state is over exactly one of is_winner('p1') and
\* is_winner('p2') holds, and when it is not over a move is possible, so no
\* draw is reachable; recursive_helper and iterative_helper return -1 or 1.
C23_NoDraw ==
    LET threshold == win_threshold(cur.b_length)
        ih == iterative_helper(Game)
    IN  /\ ~(cur.p1_score >= threshold /\ cur.p2_score >= threshold)
        /\ is_over(cur) => (is_winner(Game, "p1") /= is_winner(Game, "p2"))
        /\ ~is_over(cur) =>
              /\ cur.possible_moves # <<>>
              /\ ~is_winner(Game, "p1")
              /\ ~is_winner(Game, "p2")
        /\ recursive_helper(Game) \in {-1, 1}
        /\ ih.done => (~ih.raised /\ ih.score \in {<<-1>>, <<1>>})

\* every leyline of board 2 is captured, the winner has five and the loser
\* four: the loser is one leyline short of the threshold
C23_Witness ==
    /\ is_over(cur)
    /\ cur.b_length = 2
    /\ is_winner(Game, "p1")
    /\ ~is_winner(Game, "p2")
    /\ cur.p1_score = 5
    /\ cur.p2_score = 4
    /\ recursive_helper(Game) = -1

(* ---------------------------- C24 -------------------------------------- *)

\* every make_move claims one more cell and leaves fewer possible moves
C24_Step ==
    /\ NumClaimed(CurView)' = NumClaimed(CurView) + 1
    /\ Len(CurView.possible_moves)' < Len(CurView.possible_moves)

\* the cells claimed, one per move made, never exceed the cells of the
\* board, and a board with every cell claimed is over
C24_Bound ==
    /\ NumClaimed(CurView) <= num_cells(cur.b_length)
    /\ NumClaimed(CurView) = num_cells(cur.b_length) => is_over(cur)
    /\ ~is_over(cur) => cur.possible_moves # <<>>

\* C24: every play of legal moves from the initial state reaches a state
\* that is over after at most as many moves as the board has cells: each
\* make_move claims one more cell and shrinks possible_moves, and as long
\* as the driver keeps moving the play ends.
C24_PlayTerminates ==
    /\ []C24_Bound
    /\ [][C24_Step]_vars
    /\ <>is_over(cur)

\* a play of board 2 that ended only with the last of its seven cells
C24_Witness ==
    /\ is_over(cur)
    /\ cur.b_length = 2
    /\ NumClaimed(CurView) = num_cells(2)

(* ---------------------------- C25 -------------------------------------- *)

\* the node on top of the stack of the running call
Top == loop.tree[loop.s[Len(loop.s)]]

\* the next iteration expands the top node: it is not over and has no
\* children yet
Expanding ==
    /\ LoopRunning
    /\ ~is_over(Top.game.current_state)
    /\ Top.children = <<>>

\* an expansion gives the node at least one child
C25_Step ==
    Expanding => Len(loop'.tree[loop.s[Len(loop.s)]].children) >= 1

\* every node of the running call whose game is not over has a possible
\* move to be expanded by
C25_Nodes ==
    \A i \in 1..Len(loop.tree) :
        \/ is_over(loop.tree[i].game.current_state)
        \/ loop.tree[i].game.current_state.possible_moves # <<>>

\* the loop has ended with a score assigned to the root
Scored ==
    /\ loop # NoLoop
    /\ ~loop.raised
    /\ loop.tree[1].score # None

\* C25: the loop of iterative_helper, once started on a reachable state,
\* ends with the root's score assigned, and no node that is not over is
\* expanded into zero children.
C25_LoopTerminates ==
    /\ []C25_Nodes
    /\ [][C25_Step]_vars
    /\ LoopRunning ~> Scored

\* a call on a game with five possible moves has ended with the root scored
\* after building more than twenty nodes; the root, pushed a second time
\* when it was expanded, is still on the stack
C25_Witness ==
    /\ Scored
    /\ Len(cur.possible_moves) = 5
    /\ Len(loop.tree) > 20
    /\ loop.s = <<1>>

(* ---------------------------- C26 -------------------------------------- *)

\* the next iteration scores the top node from its children: it is not over
\* and has been expanded
Scoring ==
    /\ LoopRunning
    /\ ~is_over(Top.game.current_state)
    /\ Top.children # <<>>

\* each child holds a score, the node gets the largest negated score of its
\* children, nothing raises and the node is popped
C26_Step ==
    Scoring =>
        LET id == loop.s[Len(loop.s)]
            kids == Top.children
            negated == {-1 * loop.tree[kids[k]].score[1] : k \in 1..Len(kids)}
        IN  /\ \A k \in 1..Len(kids) : loop.tree[kids[k]].score # None
            /\ ~loop'.raised
            /\ loop'.tree[id].score =
                  <<CHOOSE v \in negated : \A w \in negated : w <= v>>
            /\ loop'.s = SubSeq(loop.s, 1, Len(loop.s) - 1)

\* C26: whenever iterative_helper scores the node on top of the stack from
\* its children, every child already holds a score and the node's score is
\* the maximum of -1 * child.score over its children.
C26_ScoredFromChildren == [][C26_Step]_vars

\* while the loop is running, a node below the root with three children or
\* more has been given the score 1 although one of its children has score 1
\* too: another child has score -1
C26_Witness ==
    /\ LoopRunning
    /\ \E i \in 2..Len(loop.tree) :
          /\ Len(loop.tree[i].children) >= 3
          /\ loop.tree[i].score = <<1>>
          /\ \E k \in 1..Len(loop.tree[i].children) :
                loop.tree[loop.tree[i].children[k]].score = <<1>>
          /\ \E k \in 1..Len(loop.tree[i].children) :
                loop.tree[loop.tree[i].children[k]].score = <<-1>>

(* ---------------------------- C27 -------------------------------------- *)

\* C27: for each board length n from 1 to 5, the generated board has n + 1
\* leylines in each family, 3 * (n + 1) in all, each unclaimed; its cells
\* are the first (n * n + 5 * n) / 2 letters, each lying exactly once in
\* exactly one leyline of each family; and the possible moves of the
\* initial state are these letters in alphabetical order.
C27_Geometry ==
    Last = 1 =>
        LET n == CurView.b_length
            total == (n * n + 5 * n) \div 2
            cells == {ALPHA[i] : i \in 1..total}
        IN  /\ n \in BoardLengths
            /\ Len(heap) = 3 * (n + 1)
            /\ Cardinality(cells) = total
            /\ \A f \in Families :
                  /\ Len(CurView[f]) = n + 1
                  /\ \A k \in 1..(n + 1) :
                        /\ Unclaimed(CurView[f][k])
                        /\ CurView[f][k].letters # <<>>
                        /\ \A i \in 1..Len(CurView[f][k].letters) :
                              CurView[f][k].letters[i] \in cells
                  /\ \A c \in cells :
                        /\ Cardinality({k \in 1..(n + 1) :
                               contains(CurView[f][k].letters, c)}) = 1
                        /\ \A k \in 1..(n + 1) :
                               count(CurView[f][k].letters, c) <= 1
            /\ CurView.possible_moves = [i \in 1..total |-> ALPHA[i]]
            /\ CurView.p1_score = 0 /\ CurView.p2_score = 0

\* the board of length 5 as generated: 25 cells A..Y, the last horizontal
\* leyline is U..Y, and the middle diagonals have six cells
C27_Witness ==
    /\ Last = 1
    /\ CurView.b_length = 5
    /\ Len(CurView.possible_moves) = 25
    /\ CurView.possible_moves[25] = "Y"
    /\ CurView.h_lines[6].letters = <<"U", "V", "W", "X", "Y">>
    /\ \E k \in 1..6 : Len(CurView.r_lines[k].letters) = 6
    /\ \E k \in 1..6 : Len(CurView.l_lines[k].letters) = 6

(* ---------------------------- C28 -------------------------------------- *)

\* the players is_winner names as winner of the current game
Winners == {p \in Players : is_winner(Game, Name(p))}

\* no move is possible in the current state
Terminal == cur.possible_moves = <<>>

\* C28 as stated: in every reachable terminal state, the winner's score is
\* more than half of the 3 * (b_length + 1) leylines.
C28_WinnerMoreThanHalf ==
    Terminal =>
        /\ Winners # {}
        /\ \A p \in Winners : 2 * Score(CurView, p) > 3 * (cur.b_length + 1)

\* C28: in every reachable terminal state there is a winner, and the
\* winner's score is at least half of the 3 * (b_length + 1) leylines; it
\* is more than half when that number is odd.
C28_WinnerAtLeastHalf ==
    Terminal =>
        /\ is_over(cur)
        /\ Winners # {}
        /\ \A p \in Winners :
              /\ Score(CurView, p) >= win_threshold(cur.b_length)
              /\ 2 * Score(CurView, p) >= 3 * (cur.b_length + 1)
              /\ (3 * (cur.b_length + 1)) % 2 = 1 =>
                     2 * Score(CurView, p) > 3 * (cur.b_length + 1)

\* board 1 is over with the winner holding exactly 3 of the 6 leylines
C28_Witness ==
    /\ Terminal
    /\ cur.b_length = 1
    /\ \E p \in Winners : 2 * Score(CurView, p) = 3 * (cur.b_length + 1)

(* ---------------------------- C29 -------------------------------------- *)

\* the k-th possible move of the current state wins at once or leads to a
\* state whose player to move has no possible move that wins at once
GoodOrSafe(k) ==
    LET after == make_move(heap, cur, cur.possible_moves[k])
    IN  \/ WinsWith(heap, cur, cur.possible_moves[k])
        \/ ~CanWinNow(after.heap, after.ss)

Untouched(hp) ==
    /\ View(hp, cur) = CurView
    /\ SubSeq(hp, 1, Len(heap)) = heap

\* the searches of recursive_helper and iterative_helper below the state st
\* living in hp: each child is made by g = copy.deepcopy(game) and
\* g.current_state.make_move(move), which is what give_copy does to a
\* state; the caller's state is untouched in every heap on the way
RECURSIVE SearchKeeps(_, _)
SearchKeeps(hp, st) ==
    /\ Untouched(hp)
    /\ ~is_over(st) =>
          \A k \in 1..Len(st.possible_moves) :
              LET s == give_copy(hp, st, st.possible_moves[k])
              IN  ~s.raised /\ SearchKeeps(s.heap, s.ss)

\* rough_outcome_strategy calls make_move on the caller's state itself,
\* and rough_outcome of the new state calls give_copy for each of its moves
\* (check_good_move, list_states) and for each move of each of these states
RoughKeeps ==
    \A k \in 1..Len(cur.possible_moves) :
        LET new_state == make_move(heap, cur, cur.possible_moves[k])
        IN  /\ ~new_state.raised
            /\ Untouched(new_state.heap)
            /\ \A j \in 1..Len(new_state.ss.possible_moves) :
                  LET s == give_copy(new_state.heap, new_state.ss,
                                     new_state.ss.possible_moves[j])
                  IN  /\ Untouched(s.heap)
                      /\ \A i \in 1..Len(s.ss.possible_moves) :
                            Untouched(give_copy(s.heap, s.ss,
                                          s.ss.possible_moves[i]).heap)

\* C30: on every reachable state that is not over, every call made by
\* recursive_minimax, iterative_minimax and rough_outcome_strategy leaves
\* the state of the game it was given as it was: the same turn, scores,
\* possible moves, cell owners and leyline owners.
C30_StrategiesKeepGame ==
    ~is_over(cur) => (SearchKeeps(heap, cur) /\ RoughKeeps)

\* a position with claimed cells and at least four moves left on which the
\* strategies return a move, where the state made for the first move has
\* its own Leyline objects, reads differently from the caller's state and
\* leaves it untouched
C30_Witness ==
    LET s == give_copy(heap, cur, cur.possible_moves[1])
        new_state == make_move(heap, cur, cur.possible_moves[1])
    IN  /\ ~is_over(cur)
        /\ Len(cur.possible_moves) >= 4
        /\ NumClaimed(CurView) >= 2
        /\ ~recursive_minimax(Game).raised
        /\ rough_outcome_strategy(Game).move # None
        /\ Len(s.heap) > Len(heap)
        /\ View(s.heap, s.ss) # CurView
        /\ View(new_state.heap, new_state.ss).h_lines # CurView.h_lines
        /\ Untouched(s.heap)
        /\ Untouched(new_state.heap)

====
